---- MODULE Spec2Model ----
(***************************************************************************)
(* genboot.py: generation of a U-Boot script for a Xen dom0-less boot from *)
(* a configuration tree and an artifact directory.                         *)
(*                                                                         *)
(* Text is a sequence of one-character strings.  A Python int is an        *)
(* arbitrary-precision number, kept as the sequence of the hexadecimal     *)
(* digits (0..15) of its magnitude, most significant first, without        *)
(* leading zeros; the empty sequence is zero, and a negative number has    *)
(* the marker -1 ahead of its digits.  The numerals of the model are over  *)
(* the alphabet of digits, hex letters, ".", " ", "+", "-" and the letters *)
(* of the size suffixes; underscores are outside that alphabet.  The       *)
(* configurations of a generation run hold non-negative numerals; the      *)
(* expressions given to the parser alone hold signed ones as well.         *)
(***************************************************************************)
EXTENDS Integers, Sequences, FiniteSets, TLC

\* ------------------------------------------------------------------ text

LowerHex == <<"0","1","2","3","4","5","6","7","8","9","a","b","c","d","e","f">>
UpperHex == <<"0","1","2","3","4","5","6","7","8","9","A","B","C","D","E","F">>

IsHexChar(c) == \E d \in 1..16 : LowerHex[d] = c \/ UpperHex[d] = c
IsDecChar(c) == \E d \in 1..10 : LowerHex[d] = c
HexVal(c) == (CHOOSE d \in 1..16 : LowerHex[d] = c \/ UpperHex[d] = c) - 1

Txt0x(t) == Len(t) >= 2 /\ t[1] = "0" /\ (t[2] = "x" \/ t[2] = "X")

RECURSIVE LStrip(_)
LStrip(t) == IF t # <<>> /\ Head(t) = " " THEN LStrip(Tail(t)) ELSE t

RECURSIVE RStrip(_)
RStrip(t) ==
    IF t # <<>> /\ t[Len(t)] = " " THEN RStrip(SubSeq(t, 1, Len(t) - 1)) ELSE t

\* str.strip()
Strip(t) == RStrip(LStrip(t))

\* str.endswith(suffix)
EndsWith(t, suffix) ==
    /\ Len(t) >= Len(suffix)
    /\ SubSeq(t, Len(t) - Len(suffix) + 1, Len(t)) = suffix

\* --------------------------------------------------------------- numbers

RECURSIVE Norm(_)
Norm(ds) == IF ds # <<>> /\ Head(ds) = 0 THEN Norm(Tail(ds)) ELSE ds

\* ds * m + carry
RECURSIVE MulAdd(_, _, _)
MulAdd(ds, m, carry) ==
    IF ds = <<>>
    THEN IF carry = 0 THEN <<>>
         ELSE Append(MulAdd(<<>>, m, carry \div 16), carry % 16)
    ELSE LET t == ds[Len(ds)] * m + carry
         IN  Append(MulAdd(SubSeq(ds, 1, Len(ds) - 1), m, t \div 16), t % 16)

\* long division of ds by the small number d: <<quotient digits, remainder>>
RECURSIVE DivRem(_, _, _, _)
DivRem(ds, d, rem, acc) ==
    IF ds = <<>> THEN <<Norm(acc), rem>>
    ELSE LET cur == rem * 16 + Head(ds)
         IN  DivRem(Tail(ds), d, cur % d, Append(acc, cur \div d))

DivSmall(ds, d) == DivRem(ds, d, 0, <<>>)[1]
ModSmall(ds, d) == DivRem(ds, d, 0, <<>>)[2]

RECURSIVE MulPow(_, _, _)
MulPow(ds, m, k) == IF k = 0 THEN ds ELSE MulPow(MulAdd(ds, m, 0), m, k - 1)

RECURSIVE DivPow(_, _, _)
DivPow(ds, d, k) == IF k = 0 THEN ds ELSE DivPow(DivSmall(ds, d), d, k - 1)

\* a small native number as a Python int
FromNat(n) == MulAdd(<<>>, 1, n)

\* the native value of a Python int below 2^31
RECURSIVE ToNat(_)
ToNat(ds) == IF ds = <<>> THEN 0
             ELSE ToNat(SubSeq(ds, 1, Len(ds) - 1)) * 16 + ds[Len(ds)]

\* a negative Python int: the marker -1 ahead of the digits of its magnitude
Neg(n) == n # <<>> /\ Head(n) = -1
Mag(n) == IF Neg(n) THEN Tail(n) ELSE n
Minus(m) == IF m = <<>> THEN <<>> ELSE <<-1>> \o m

\* the number of magnitude m under the sign of a numeral
Signed(sign, m) == IF sign = "-" THEN Minus(m) ELSE m

\* m * 10^exp, the digits after the point cut off
Scale(m, exp) == IF exp >= 0 THEN MulPow(m, 10, exp) ELSE DivPow(m, 10, 0 - exp)

\* ------------------------------------------------------- Python values

IntV(n) == [t |-> "int", n |-> n, s |-> <<>>]
StrV(s) == [t |-> "str", n |-> <<>>, s |-> s]
NoneV == [t |-> "none", n |-> <<>>, s |-> <<>>]

\* dict.get(key, default) on a field that may be absent
Get(v, default) == IF v.t = "none" THEN default ELSE v

Ok(n) == [ok |-> TRUE, n |-> n]
ValueError == [ok |-> FALSE, n |-> <<>>]

RECURSIVE FromDigits(_, _, _)
FromDigits(t, base, acc) ==
    IF t = <<>> THEN Norm(acc)
    ELSE FromDigits(Tail(t), base, MulAdd(acc, base, HexVal(Head(t))))

\* int(text, 16) of a text that starts with 0x or 0X
IntBase16(t) ==
    LET body == SubSeq(t, 3, Len(t))
    IN  IF body # <<>> /\ \A k \in 1..Len(body) : IsHexChar(body[k])
        THEN Ok(FromDigits(body, 16, <<>>))
        ELSE ValueError

\* the sign a numeral starts with, "" for none, and the text after it
SignOf(t) == IF t # <<>> /\ Head(t) \in {"+", "-"} THEN Head(t) ELSE ""
Unsigned(t) == IF SignOf(t) = "" THEN t ELSE Tail(t)

\* int(text): an optional sign and decimal digits
IntBase10(t) ==
    LET ds == Unsigned(t)
    IN  IF ds # <<>> /\ \A k \in 1..Len(ds) : IsDecChar(ds[k])
        THEN Ok(Signed(SignOf(t), FromDigits(ds, 10, <<>>)))
        ELSE ValueError

\* the first position of a character of cs in t, Len(t) + 1 when there is none
FirstOf(t, cs) ==
    IF \E k \in 1..Len(t) : t[k] \in cs
    THEN CHOOSE k \in 1..Len(t) : t[k] \in cs /\ \A j \in 1..(k - 1) : t[j] \notin cs
    ELSE Len(t) + 1

AllDec(t) == \A k \in 1..Len(t) : IsDecChar(t[k])

\* float(number): an optional sign, digits, an optional "." and digits, and
\* an optional signed exponent; the value is sign digits * 10^exp
Float(number) ==
    LET e    == FirstOf(number, {"e", "E"})
        mant == Unsigned(SubSeq(number, 1, e - 1))
        expo == SubSeq(number, e + 1, Len(number))
        dot  == FirstOf(mant, {"."})
        ip   == SubSeq(mant, 1, dot - 1)
        fp   == SubSeq(mant, dot + 1, Len(mant))
        wellFormed ==
            /\ AllDec(ip) /\ AllDec(fp) /\ Len(ip) + Len(fp) >= 1
            /\ (e <= Len(number) => (Unsigned(expo) # <<>> /\ AllDec(Unsigned(expo))))
        x == ToNat(FromDigits(Unsigned(expo), 10, <<>>))
    IN  IF wellFormed
        THEN [ok |-> TRUE, sign |-> SignOf(number),
              digits |-> FromDigits(ip \o fp, 10, <<>>),
              exp |-> (IF SignOf(expo) = "-" THEN 0 - x ELSE x) - Len(fp)]
        ELSE [ok |-> FALSE, sign |-> "", digits |-> <<>>, exp |-> 0]

\* int(f * 1024^power) of a float f: the product is truncated toward zero
Truncated(f, power) ==
    IF f.ok THEN Ok(Signed(f.sign, Scale(MulPow(f.digits, 1024, power), f.exp)))
    ELSE ValueError

\* int(f * 1024^power) rounding the product down instead of toward zero
Floored(f, power, q) ==
    IF ~f.ok THEN ValueError
    ELSE IF /\ f.sign = "-" /\ f.exp < 0
            /\ MulPow(q, 10, 0 - f.exp) # MulPow(f.digits, 1024, power)
         THEN Ok(Minus(MulAdd(q, 1, 1)))
    ELSE Ok(Signed(f.sign, q))

FloatTimes_Floor(number, power) ==
    Floored(Float(number), power, Mag(Truncated(Float(number), power).n))

\* int(float(number) * 1024^power)
FloatTimes(number, power) == Truncated(Float(number), power)

KiB == <<"K", "i", "B">>
MiB == <<"M", "i", "B">>
GiB == <<"G", "i", "B">>

\* multipliers: the suffixes in dict order, each with its power of 1024
multipliers == << <<KiB, 1>>, <<MiB, 2>>, <<GiB, 3>> >>

parse_address_or_size(v) ==
    IF v.t = "int" THEN Ok(v.n)
    ELSE LET addr_str == Strip(v.s)
             hits == {k \in 1..Len(multipliers) : EndsWith(addr_str, multipliers[k][1])}
         IN  IF Txt0x(addr_str) THEN IntBase16(addr_str)
             ELSE IF hits # {}
             THEN LET k == CHOOSE h \in hits : \A g \in hits : h <= g
                      suffix == multipliers[k][1]
                      number == Strip(SubSeq(addr_str, 1, Len(addr_str) - Len(suffix)))
                  IN  FloatTimes(number, multipliers[k][2])
             ELSE IntBase10(addr_str)

\* f"{n:x}"
RECURSIVE HexDigits(_)
HexDigits(ds) == IF ds = <<>> THEN <<>>
                 ELSE <<LowerHex[Head(ds) + 1]>> \o HexDigits(Tail(ds))

FmtX(n) == IF n = <<>> THEN <<"0">>
           ELSE IF Neg(n) THEN <<"-">> \o HexDigits(Mag(n)) ELSE HexDigits(n)

RECURSIVE ZeroPad(_, _)
ZeroPad(t, width) == IF Len(t) >= width THEN t ELSE ZeroPad(<<"0">> \o t, width)

\* f"{n:08x}": the sign counts in the width, the zeros follow it
Fmt08x(n) == IF Neg(n) THEN <<"-">> \o ZeroPad(HexDigits(Mag(n)), 7)
             ELSE ZeroPad(FmtX(n), 8)

\* f"{n}"
RECURSIVE DecDigits(_)
DecDigits(ds) ==
    IF ds = <<>> THEN <<>>
    ELSE Append(DecDigits(DivSmall(ds, 10)), LowerHex[ModSmall(ds, 10) + 1])

FmtD(n) == IF n = <<>> THEN <<"0">>
           ELSE IF Neg(n) THEN <<"-">> \o DecDigits(Mag(n)) ELSE DecDigits(n)

Fmt(s) == [ok |-> TRUE, s |-> s]
FormatError == [ok |-> FALSE, s |-> <<>>]

\* format_hex without the zero padding
format_hex_Unpadded(value) ==
    IF value.t = "str" /\ Txt0x(value.s) THEN Fmt(value.s)
    ELSE IF value.t = "int" THEN Fmt(<<"0", "x">> \o FmtX(value.n))
    ELSE FormatError

\* format_hex keeping the low 8 hex digits of a wider value
format_hex_Low(value) ==
    IF value.t = "str" /\ Txt0x(value.s) THEN Fmt(value.s)
    ELSE IF value.t = "int"
         THEN LET t == Fmt08x(value.n)
              IN  Fmt(<<"0", "x">> \o SubSeq(t, Len(t) - 7, Len(t)))
    ELSE FormatError

format_hex(value) ==
    IF value.t = "str" /\ Txt0x(value.s) THEN Fmt(value.s)
    ELSE IF value.t = "int" THEN Fmt(<<"0", "x">> \o Fmt08x(value.n))
    ELSE FormatError

\* f"0x{n:08x}"
Hex08(n) == <<"0", "x">> \o Fmt08x(n)

\* f"0x{n:x}"
HexX(n) == <<"0", "x">> \o FmtX(n)

\* ------------------------------------------------------------ the inputs

\* the length of the longest xen.bootonly list the model draws
MaxBootonly == 2

DEFAULT_SIZE == 1048576
FDT_RESIZE == 2048

T_0x1000      == <<"0","x","1","0","0","0">>
T_0X0100ABCD  == <<"0","X","0","1","0","0","A","B","C","D">>
T_wide        == <<"0","x","1","0","0","0","0","0","0","0","0">>
T_0x03800000  == <<"0","x","0","3","8","0","0","0","0","0">>
T_0x5000000   == <<"0","x","5","0","0","0","0","0","0">>
T_64MiB       == <<"6","4","M","i","B">>
T_48MiB       == <<"4","8","M","i","B">>
T_1p5MiB      == <<"1",".","5","M","i","B">>
T_2047        == <<"2","0","4","7">>
T_5MB         == <<"5","M","B">>
T_0x          == <<"0","x">>

DEFAULT_XEN_ADDR     == <<"0","x","0","1","0","0","0","0","0","0">>
DEFAULT_DT_ADDR      == <<"0","x","0","2","0","0","0","0","0","0">>
DEFAULT_KERNEL_ADDR  == <<"0","x","0","3","0","0","0","0","0","0">>
DEFAULT_DOMDT_ADDR   == <<"0","x","0","4","0","0","0","0","0","0">>
DEFAULT_RAMDISK_ADDR == <<"0","x","0","5","0","0","0","0","0","0">>

Art(file, addr) == [file |-> file, addr |-> addr]
NoArt == Art("", NoneV)

Medias == { [type |-> "", number |-> NoneV], [type |-> "usb", number |-> IntV(FromNat(1))] }

XenArts == { Art("xen.bin", NoneV), NoArt, Art("xen.bin", StrV(T_0x1000)),
             Art("xen.bin", StrV(T_0X0100ABCD)), Art("", StrV(T_5MB)) }

DtArts == { NoArt, Art("board.dtb", IntV(FromNat(41943040))),
            Art("board.dtb", StrV(T_wide)), Art("", StrV(T_0x)) }

XenBootargs == { "", "bootscrub=0" }

\* xen.colors: absent is NoColors; a present list is <<TRUE, list>>
NoColors == <<FALSE, <<>>>>
ColorLists == { NoColors, <<TRUE, <<>>>>, <<TRUE, <<"none">>>>,
                <<TRUE, <<"none", "2-5">>>>, <<TRUE, <<"0-1", "2-5">>>>,
                <<TRUE, <<"0-1", "none", "4-5">>>> }

Params(cpus, memory, vpl011) == [cpus |-> cpus, memory |-> memory, vpl011 |-> vpl011]
Kernel(file, addr, bootargs) == [file |-> file, addr |-> addr, bootargs |-> bootargs]
Domain(kernel, dt, ramdisk, params) ==
    [kernel |-> kernel, dt |-> dt, ramdisk |-> ramdisk, params |-> params]

DomainRecords ==
    { Domain(Kernel("k.bin", StrV(T_0x03800000), "console=ttyAMA0"),
             Art("d.dtb", IntV(FromNat(75497472))),
             Art("r.cpio", StrV(T_0x5000000)),
             Params(IntV(FromNat(2)), StrV(T_48MiB), TRUE)),
      Domain(Kernel("", NoneV, ""), Art("", StrV(T_1p5MiB)), NoArt,
             Params(NoneV, NoneV, FALSE)),
      Domain(Kernel("k.bin", StrV(T_wide), ""),
             Art("d.dtb", StrV(T_64MiB)),
             Art("missing.cpio", NoneV),
             Params(NoneV, StrV(T_2047), FALSE)),
      Domain(Kernel("k.bin", NoneV, ""),
             Art("d.dtb", NoneV),
             Art("", StrV(T_5MB)),
             Params(NoneV, StrV(T_1p5MiB), FALSE)),
      Domain(Kernel("", NoneV, "quiet"), NoArt, Art("r.cpio", NoneV),
             Params(IntV(FromNat(1)), StrV(T_5MB), TRUE)) }

Names == { "a", "b", "ghost" }
DomainNames == { "a", "b" }

\* the domains map, in key order: a sequence of <<name, record>> with distinct names
DomainMaps ==
    { <<>> }
    \cup { << <<n, r>> >> : n \in DomainNames, r \in DomainRecords }
    \cup { << <<nm[1], r>>, <<nm[2], q>> >> :
               nm \in { p \in DomainNames \X DomainNames : p[1] # p[2] },
               r \in DomainRecords, q \in DomainRecords }

RECURSIVE SeqsUpTo(_, _)
SeqsUpTo(S, n) ==
    IF n = 0 THEN { <<>> }
    ELSE SeqsUpTo(S, n - 1)
         \cup { Append(q, x) : q \in { p \in SeqsUpTo(S, n - 1) : Len(p) = n - 1 }, x \in S }

\* xen.bootonly: absent is <<FALSE, <<>>>>; a present list is <<TRUE, list>>
Bootonlys == { <<FALSE, <<>>>> } \cup { <<TRUE, q>> : q \in SeqsUpTo(Names, MaxBootonly) }

FileNames == { "xen.bin", "board.dtb", "k.bin", "d.dtb", "r.cpio", "missing.cpio" }

\* the artifact directory: the byte length of each file that exists
Directories ==
    { [f \in FileNames |->
          CASE f = "k.bin"  -> IntV(FromNat(1024))
            [] f = "d.dtb"  -> IntV(FromNat(384))
            [] f = "r.cpio" -> IntV(FromNat(640))
            [] OTHER        -> NoneV],
      [f \in FileNames |->
          CASE f = "k.bin"  -> IntV(<<>>)
            [] f = "r.cpio" -> IntV(FromNat(4096))
            [] OTHER        -> NoneV] }

\* ------------------------------------------------------------- the state

VARIABLES
    config,        \* the parsed configuration tree (immutable input)
    directory,     \* the artifact directory (immutable input)
    pc,            \* the position of main / generate_uboot_script
    k,             \* the position in bootonly of the running for loop
    script_lines,  \* the growing list of command lines
    xen_addr,      \* the hypervisor address as formatted at the top
    dt_addr,       \* the device tree address as formatted at the top
    stdout,        \* the lines written to standard output
    stderr,        \* the messages written to the diagnostic stream
    exited,        \* <<>> while running, then <<exit code>>
    expr,          \* the expression a caller gives to parse_address_or_size
    at,            \* the position of that caller
    parsed,        \* the result of parse_address_or_size(expr)
    formatted,     \* the text of format_hex(parsed)
    reparsed       \* the result of parsing formatted, or parsed, again

vars == <<config, directory, pc, k, script_lines, xen_addr, dt_addr, stdout, stderr, exited,
          expr, at, parsed, formatted, reparsed>>

\* the state of a generation run, and the state of a caller of the parser
run == <<config, directory, pc, k, script_lines, xen_addr, dt_addr, stdout, stderr, exited>>
calls == <<expr, at, parsed, formatted, reparsed>>

\* One command line: the command, the domain ordinal i of the /chosen/domU<i>
\* node it names (0 when it names none), the text after module@ when it names
\* a module node, the property, and the remaining words in order.
Line(op, i, mod, prop, val) == [op |-> op, i |-> i, mod |-> mod, prop |-> prop, val |-> val]

Blank == Line("", 0, <<>>, "", <<>>)

media_type == IF config.media.type = "" THEN "mmc" ELSE config.media.type
media_number == FmtD(Get(config.media.number, IntV(<<>>)).n)

Fatload(addr, file) ==
    Line("fatload", 0, <<>>, "", << <<media_type>>, media_number, addr, <<file>> >>)

domains_config == config.domains
Keys == [j \in 1..Len(domains_config) |-> domains_config[j][1]]
HasDomain(name) == \E j \in 1..Len(domains_config) : domains_config[j][1] = name
DomainOf(name) ==
    domains_config[CHOOSE j \in 1..Len(domains_config) : domains_config[j][1] = name][2]

bootonly == IF config.xen.bootonly[1] THEN config.xen.bootonly[2] ELSE Keys

xen_colors == config.xen.colors[2]
HasColors == config.xen.colors[1] /\ xen_colors # <<>>

\* get_file_size taking a missing file for an empty one
get_file_size_Zero(dir, filename) ==
    IF filename = "" THEN [size |-> FromNat(DEFAULT_SIZE), warn |-> <<>>]
    ELSE IF dir[filename].t = "none"
         THEN [size |-> <<>>, warn |-> << <<"Warning", filename>> >>]
         ELSE [size |-> dir[filename].n, warn |-> <<>>]

\* the size and the warning of get_file_size; the directory maps a file name to
\* its byte length, NoneV for a file that does not exist
get_file_size(dir, filename) ==
    IF filename = "" THEN [size |-> FromNat(DEFAULT_SIZE), warn |-> <<>>]
    ELSE IF dir[filename].t = "none"
         THEN [size |-> FromNat(DEFAULT_SIZE), warn |-> << <<"Warning", filename>> >>]
         ELSE [size |-> dir[filename].n, warn |-> <<>>]

\* ------------------------------------------------------------ load phase

LoadXen ==
    /\ pc = "load_xen"
    /\ LET xen == config.xen
           r == parse_address_or_size(Get(xen.addr, StrV(DEFAULT_XEN_ADDR)))
       IN  IF ~r.ok
           THEN /\ pc' = "raised"
                /\ UNCHANGED <<script_lines, xen_addr>>
           ELSE /\ xen_addr' = format_hex(IntV(r.n)).s
                /\ script_lines' = IF xen.file # ""
                                   THEN Append(script_lines, Fatload(xen_addr', xen.file))
                                   ELSE script_lines
                /\ pc' = "load_dt"
    /\ UNCHANGED <<config, directory, k, dt_addr, stdout, stderr, exited>>
    /\ UNCHANGED calls

LoadDt ==
    /\ pc = "load_dt"
    /\ LET dt == config.dt
           r == parse_address_or_size(Get(dt.addr, StrV(DEFAULT_DT_ADDR)))
       IN  IF ~r.ok
           THEN /\ pc' = "raised"
                /\ UNCHANGED <<script_lines, dt_addr, k>>
           ELSE /\ dt_addr' = format_hex(IntV(r.n)).s
                /\ script_lines' = IF dt.file # ""
                                   THEN Append(script_lines, Fatload(dt_addr', dt.file))
                                   ELSE script_lines
                /\ k' = 1
                /\ pc' = "load_domains"
    /\ UNCHANGED <<config, directory, xen_addr, stdout, stderr, exited>>
    /\ UNCHANGED calls

\* LoadLines without the tests "if kernel_file", "if domain_dt_file", "if ramdisk_file"
LoadLines_NoSkip(domain) ==
    LET kr == parse_address_or_size(Get(domain.kernel.addr, StrV(DEFAULT_KERNEL_ADDR)))
        dr == parse_address_or_size(Get(domain.dt.addr, StrV(DEFAULT_DOMDT_ADDR)))
        rr == parse_address_or_size(Get(domain.ramdisk.addr, StrV(DEFAULT_RAMDISK_ADDR)))
        kl == IF kr.ok
              THEN << Fatload(format_hex(IntV(kr.n)).s, domain.kernel.file) >> ELSE <<>>
        dl == IF kr.ok /\ dr.ok
              THEN << Fatload(format_hex(IntV(dr.n)).s, domain.dt.file) >> ELSE <<>>
        rl == IF kr.ok /\ dr.ok /\ rr.ok
              THEN << Fatload(format_hex(IntV(rr.n)).s, domain.ramdisk.file) >> ELSE <<>>
    IN  [ok |-> kr.ok /\ dr.ok /\ rr.ok, lines |-> kl \o dl \o rl]

\* LoadLines with the device tree loaded before the kernel
LoadLines_DtFirst(domain) ==
    LET kr == parse_address_or_size(Get(domain.kernel.addr, StrV(DEFAULT_KERNEL_ADDR)))
        dr == parse_address_or_size(Get(domain.dt.addr, StrV(DEFAULT_DOMDT_ADDR)))
        rr == parse_address_or_size(Get(domain.ramdisk.addr, StrV(DEFAULT_RAMDISK_ADDR)))
        kl == IF kr.ok /\ dr.ok /\ domain.kernel.file # ""
              THEN << Fatload(format_hex(IntV(kr.n)).s, domain.kernel.file) >> ELSE <<>>
        dl == IF dr.ok /\ domain.dt.file # ""
              THEN << Fatload(format_hex(IntV(dr.n)).s, domain.dt.file) >> ELSE <<>>
        rl == IF kr.ok /\ dr.ok /\ rr.ok /\ domain.ramdisk.file # ""
              THEN << Fatload(format_hex(IntV(rr.n)).s, domain.ramdisk.file) >> ELSE <<>>
    IN  [ok |-> kr.ok /\ dr.ok /\ rr.ok, lines |-> dl \o kl \o rl]

\* the fatload lines of one domain, up to the first address that does not parse
LoadLines(domain) ==
    LET kr == parse_address_or_size(Get(domain.kernel.addr, StrV(DEFAULT_KERNEL_ADDR)))
        dr == parse_address_or_size(Get(domain.dt.addr, StrV(DEFAULT_DOMDT_ADDR)))
        rr == parse_address_or_size(Get(domain.ramdisk.addr, StrV(DEFAULT_RAMDISK_ADDR)))
        kl == IF kr.ok /\ domain.kernel.file # ""
              THEN << Fatload(format_hex(IntV(kr.n)).s, domain.kernel.file) >> ELSE <<>>
        dl == IF kr.ok /\ dr.ok /\ domain.dt.file # ""
              THEN << Fatload(format_hex(IntV(dr.n)).s, domain.dt.file) >> ELSE <<>>
        rl == IF kr.ok /\ dr.ok /\ rr.ok /\ domain.ramdisk.file # ""
              THEN << Fatload(format_hex(IntV(rr.n)).s, domain.ramdisk.file) >> ELSE <<>>
    IN  [ok |-> kr.ok /\ dr.ok /\ rr.ok, lines |-> kl \o dl \o rl]

\* one iteration of the loop "for domain_name in bootonly"
LoadDomain ==
    /\ pc = "load_domains"
    /\ k <= Len(bootonly)
    /\ IF ~HasDomain(bootonly[k])
       THEN /\ k' = k + 1
            /\ UNCHANGED <<pc, script_lines>>
       ELSE LET res == LoadLines(DomainOf(bootonly[k]))
            IN  /\ script_lines' = script_lines \o res.lines
                /\ IF res.ok THEN k' = k + 1 /\ pc' = pc
                             ELSE k' = k /\ pc' = "raised"
    /\ UNCHANGED <<config, directory, xen_addr, dt_addr, stdout, stderr, exited>>
    /\ UNCHANGED calls

\* ------------------------------------------------- device-tree-prep phase

\* bootargs_parts: the words joined with " " into the xen,xen-bootargs value
bootargs_parts ==
    (IF config.xen.bootargs # "" THEN << <<config.xen.bootargs>> >> ELSE <<>>)
    \o (IF HasColors THEN << <<"llc-coloring=on">> >> ELSE <<>>)
    \o (IF HasColors /\ Len(xen_colors) > 0 /\ xen_colors[1] # "none"
        THEN << <<"xen-llc-colors=", xen_colors[1]>> >> ELSE <<>>)

\* FdtPrepLines without the test "if bootargs_parts"
FdtPrepLines_Always ==
    << Line("fdt addr", 0, <<>>, "", <<dt_addr>>),
       Line("fdt resize", 0, <<>>, "", <<FmtD(FromNat(FDT_RESIZE))>>),
       Blank,
       Line("fdt set", 0, <<>>, "xen,xen-bootargs", bootargs_parts),
       Blank, Blank >>

FdtPrepLines ==
    << Line("fdt addr", 0, <<>>, "", <<dt_addr>>),
       Line("fdt resize", 0, <<>>, "", <<FmtD(FromNat(FDT_RESIZE))>>),
       Blank >>
    \o (IF bootargs_parts # <<>>
        THEN << Line("fdt set", 0, <<>>, "xen,xen-bootargs", bootargs_parts) >>
        ELSE <<>>)
    \o << Blank, Blank >>

\* runs when the load loop has gone through bootonly
FdtPrep ==
    /\ pc = "load_domains"
    /\ k > Len(bootonly)
    /\ script_lines' = script_lines \o FdtPrepLines
    /\ k' = 1
    /\ pc' = "configure_domains"
    /\ UNCHANGED <<config, directory, xen_addr, dt_addr, stdout, stderr, exited>>
    /\ UNCHANGED calls

\* -------------------------------------------- domain construction phase

DomSet(i, prop, val) == Line("fdt set", i, <<>>, prop, val)
ModSet(i, mod, prop, val) == Line("fdt set", i, mod, prop, val)
Mknode(i, mod) == Line("fdt mknode", i, mod, "", <<>>)

DEFAULT_MEMORY == T_64MiB

\* LlcColorsLines with the scan starting at index 0
LlcColorsLines_FromIndex0(i) ==
    IF HasColors /\ Len(xen_colors) > 1
    THEN LET valid == {c \in 1..Len(xen_colors) : xen_colors[c] # "none"}
         IN  IF valid = {} THEN <<>>
             ELSE LET color_idx == CHOOSE c \in valid : \A d \in valid : c <= d
                  IN  << DomSet(i, "llc-colors", << <<xen_colors[color_idx]>> >>) >>
    ELSE <<>>

\* the llc-colors line of a domain: the first entry after index 0 that is not "none"
LlcColorsLines(i) ==
    IF HasColors /\ Len(xen_colors) > 1
    THEN LET valid == {c \in 2..Len(xen_colors) : xen_colors[c] # "none"}
         IN  IF valid = {} THEN <<>>
             ELSE LET color_idx == CHOOSE c \in valid : \A d \in valid : c <= d
                  IN  << DomSet(i, "llc-colors", << <<xen_colors[color_idx]>> >>) >>
    ELSE <<>>

\* the cells of the memory property: <0x0 0x{int(bytes / 1024):x}>
MemoryCells_RoundUp(bytes) ==
    << HexX(<<>>), HexX(DivSmall(MulAdd(bytes, 1, 1023), 1024)) >>

MemoryCells(bytes) ==
    << HexX(<<>>),
       HexX(IF Neg(bytes) THEN Minus(DivSmall(Mag(bytes), 1024)) ELSE DivSmall(bytes, 1024)) >>

\* the cells of the reg property of a kernel module: <{addr_hex} 0x{size:x}>
KernelReg(addr_hex, size) == << addr_hex, HexX(size) >>

\* the cells of the reg property of a device tree module: <{addr_hex} {size}>
DtReg_Hex(addr_hex, size) == << addr_hex, HexX(size) >>

DtReg(addr_hex, size) == << addr_hex, FmtD(size) >>

\* the cells of the reg property of a ramdisk module: <{addr_hex} 0x{size:x}>
RamdiskReg(addr_hex, size) == << addr_hex, HexX(size) >>

\* the lines and warnings of one domain, up to the first expression that does
\* not parse
ConfigureLines(i, domain) ==
    LET params == domain.params
        cpus == Get(params.cpus, IntV(FromNat(1)))
        node == << Mknode(i, <<>>),
                   DomSet(i, "compatible", << <<"xen,domain">> >>),
                   DomSet(i, "cpus", << HexX(cpus.n) >>),
                   DomSet(i, "#address-cells", << HexX(FromNat(1)) >>),
                   DomSet(i, "#size-cells", << HexX(FromNat(1)) >>) >>
        memory == parse_address_or_size(Get(params.memory, StrV(DEFAULT_MEMORY)))
        memLines == << DomSet(i, "memory", MemoryCells(memory.n)), Blank >>
                    \o (IF params.vpl011 THEN << DomSet(i, "vpl011", <<>>) >> ELSE <<>>)
        kernel == domain.kernel
        kernel_addr == parse_address_or_size(Get(kernel.addr, StrV(DEFAULT_KERNEL_ADDR)))
        kernel_addr_hex == Hex08(kernel_addr.n)
        kernel_size == IF kernel.file # "" THEN get_file_size(directory, kernel.file)
                       ELSE [size |-> FromNat(DEFAULT_SIZE), warn |-> <<>>]
        kernelLines ==
            << Mknode(i, kernel_addr_hex) >>
            \o LlcColorsLines(i)
            \o << ModSet(i, kernel_addr_hex, "compatible",
                         << <<"multiboot,kernel">>, <<"multiboot,module">> >>),
                  ModSet(i, kernel_addr_hex, "reg",
                         KernelReg(kernel_addr_hex, kernel_size.size)),
                  Blank >>
            \o (IF kernel.bootargs # ""
                THEN << ModSet(i, kernel_addr_hex, "bootargs", << <<kernel.bootargs>> >>),
                        Blank >>
                ELSE <<>>)
        domain_dt == domain.dt
        domain_dt_addr == parse_address_or_size(Get(domain_dt.addr, StrV(DEFAULT_DOMDT_ADDR)))
        domain_dt_addr_hex == Hex08(domain_dt_addr.n)
        dt_size == get_file_size(directory, domain_dt.file)
        dtOn == domain_dt.file # ""
        dtLines ==
            IF dtOn
            THEN << Mknode(i, domain_dt_addr_hex),
                    ModSet(i, domain_dt_addr_hex, "compatible",
                           << <<"multiboot,device-tree">>, <<"multiboot,module">> >>),
                    ModSet(i, domain_dt_addr_hex, "reg",
                           DtReg(domain_dt_addr_hex, dt_size.size)),
                    Blank, Blank >>
            ELSE <<>>
        ramdisk == domain.ramdisk
        ramdisk_addr_value == parse_address_or_size(Get(ramdisk.addr, StrV(DEFAULT_RAMDISK_ADDR)))
        ramdisk_addr_hex == Hex08(ramdisk_addr_value.n)
        ramdisk_size == get_file_size(directory, ramdisk.file)
        rdOn == ramdisk.file # ""
        ramdiskLines ==
            IF rdOn
            THEN << Mknode(i, ramdisk_addr_hex),
                    ModSet(i, ramdisk_addr_hex, "compatible",
                           << <<"multiboot,ramdisk">>, <<"multiboot,module">> >>),
                    ModSet(i, ramdisk_addr_hex, "reg",
                           RamdiskReg(ramdisk_addr_hex, ramdisk_size.size)),
                    Blank >>
            ELSE <<>>
        Res(ok, lines, warn) == [ok |-> ok, lines |-> lines, warn |-> warn]
    IN  IF ~memory.ok THEN Res(FALSE, node, <<>>)
        ELSE IF ~kernel_addr.ok THEN Res(FALSE, node \o memLines, <<>>)
        ELSE IF ~domain_dt_addr.ok
             THEN Res(FALSE, node \o memLines \o kernelLines, kernel_size.warn)
        ELSE IF ~ramdisk_addr_value.ok
             THEN Res(FALSE, node \o memLines \o kernelLines \o dtLines,
                      kernel_size.warn \o (IF dtOn THEN dt_size.warn ELSE <<>>))
        ELSE Res(TRUE, node \o memLines \o kernelLines \o dtLines \o ramdiskLines,
                 kernel_size.warn \o (IF dtOn THEN dt_size.warn ELSE <<>>)
                 \o (IF rdOn THEN ramdisk_size.warn ELSE <<>>))

\* the ordinal of the domain at position pos of bootonly: enumerate(bootonly, 1)
Ordinal(pos) == pos

\* one iteration of the loop "for i, domain_name in enumerate(bootonly, 1)"
ConfigureDomain ==
    /\ pc = "configure_domains"
    /\ k <= Len(bootonly)
    /\ IF ~HasDomain(bootonly[k])
       THEN /\ k' = k + 1
            /\ UNCHANGED <<pc, script_lines, stderr>>
       ELSE LET res == ConfigureLines(Ordinal(k), DomainOf(bootonly[k]))
            IN  /\ script_lines' = script_lines \o res.lines
                /\ stderr' = stderr \o res.warn
                /\ IF res.ok THEN k' = k + 1 /\ pc' = pc
                             ELSE k' = k /\ pc' = "raised"
    /\ UNCHANGED <<config, directory, xen_addr, dt_addr, stdout, exited>>
    /\ UNCHANGED calls

\* ----------------------------------------------------------- final phase

\* FinalLines with the kernel entry before the dump
FinalLines_BootiFirst ==
    << Line("booti", 0, <<>>, "", <<xen_addr, dt_addr>>),
       Line("fdt print", 0, <<>>, "", << <<"/chosen">> >>) >>

FinalLines ==
    << Line("fdt print", 0, <<>>, "", << <<"/chosen">> >>),
       Line("booti", 0, <<>>, "", <<xen_addr, dt_addr>>) >>

\* runs when the construction loop has gone through bootonly; the function
\* returns the joined lines
Final ==
    /\ pc = "configure_domains"
    /\ k > Len(bootonly)
    /\ script_lines' = script_lines \o FinalLines
    /\ pc' = "generated"
    /\ UNCHANGED <<config, directory, k, xen_addr, dt_addr, stdout, stderr, exited>>
    /\ UNCHANGED calls

\* ------------------------------------------------------------------ main

\* print(script_content)
PrintScript ==
    /\ pc = "generated"
    /\ stdout' = stdout \o script_lines
    /\ exited' = <<0>>
    /\ pc' = "exit"
    /\ UNCHANGED <<config, directory, k, script_lines, xen_addr, dt_addr, stderr>>
    /\ UNCHANGED calls

\* ErrorExit writing the lines built so far before it exits
ErrorExit_Flush ==
    /\ pc = "raised"
    /\ stdout' = stdout \o script_lines
    /\ stderr' = Append(stderr, <<"Error generating script">>)
    /\ exited' = <<1>>
    /\ pc' = "exit"
    /\ UNCHANGED <<config, directory, k, script_lines, xen_addr, dt_addr>>
    /\ UNCHANGED calls

\* except Exception: the error goes to the diagnostic stream, sys.exit(1)
ErrorExit ==
    /\ pc = "raised"
    /\ stderr' = Append(stderr, <<"Error generating script">>)
    /\ exited' = <<1>>
    /\ pc' = "exit"
    /\ UNCHANGED <<config, directory, k, script_lines, xen_addr, dt_addr, stdout>>
    /\ UNCHANGED calls

Xen(art, bootargs, only, colors) ==
    [file |-> art.file, addr |-> art.addr, bootargs |-> bootargs,
     bootonly |-> only, colors |-> colors]

Config(media, xen, dt, domains) ==
    [media |-> media, xen |-> xen, dt |-> dt, domains |-> domains]

\* every top-level section, over no domain or one domain
TopConfigs ==
    { Config(m, Xen(a, b, <<FALSE, <<>>>>, c), d, doms) :
        m \in Medias, a \in XenArts, b \in XenBootargs, c \in ColorLists, d \in DtArts,
        doms \in { dm \in DomainMaps : Len(dm) = 0 \/ (Len(dm) = 1 /\ dm[1][1] = "a") } }

\* every domains map and every bootonly list, under plain top-level sections
DomainConfigs ==
    { Config([type |-> "", number |-> NoneV], Xen(Art("xen.bin", NoneV), "", o, c),
             NoArt, doms) :
        o \in Bootonlys, doms \in DomainMaps,
        c \in { cl \in ColorLists : cl[1] => Len(cl[2]) >= 2 } }

\* the runs: a configuration and an artifact directory
Inputs ==
    (TopConfigs \X Directories)
    \cup (DomainConfigs \X { d \in Directories : d["d.dtb"].t = "int" })

Init ==
    /\ \E in \in Inputs : config = in[1] /\ directory = in[2]
    /\ pc = "load_xen"
    /\ k = 1
    /\ script_lines = <<>>
    /\ xen_addr = <<>>
    /\ dt_addr = <<>>
    /\ stdout = <<>>
    /\ stderr = <<>>
    /\ exited = <<>>
    /\ expr = NoneV
    /\ at = "none"
    /\ parsed = <<>>
    /\ formatted = <<>>
    /\ reparsed = <<>>

Next ==
    \/ LoadXen
    \/ LoadDt
    \/ LoadDomain
    \/ FdtPrep
    \/ ConfigureDomain
    \/ Final
    \/ PrintScript
    \/ ErrorExit

Spec == Init /\ [][Next]_vars

\* ------------------------------------------------ the parser on its own

\* the number of digits of the longest numeral the parser is given
MaxDigits == 2

Pads == {<<>>, <<" ">>}
Signs == {<<>>, <<"-">>, <<"+">>}
HexChars == {"0", "7", "a", "F"}
DecChars == {"0", "1", "9"}

\* the texts of up to n characters of chars
Texts(chars, n) == UNION { [1..m -> chars] : m \in 0..n }

\* what follows the whole part of the numeral of a size
Fractions ==
    {<<>>, <<".">>, <<".", "5">>, <<".", "2", "5">>, <<".", "1">>, <<"e", "1">>,
     <<".", "5", "e", "-", "2">>}

\* the suffixes, and three that are none
Suffixes == {KiB, MiB, GiB, <<"M", "B">>, <<"k", "i", "B">>, <<"G", "i", "b">>}

HexExprs ==
    { l \o p \o ds \o r :
        l \in Pads, p \in {<<"0", "x">>, <<"0", "X">>}, ds \in Texts(HexChars, MaxDigits),
        r \in Pads }

DecExprs ==
    { l \o sg \o ds \o r :
        l \in Pads, sg \in Signs, ds \in Texts(DecChars, MaxDigits), r \in Pads }

SizeExprs ==
    { l \o sg \o ip \o fr \o gap \o suf :
        l \in Pads, sg \in Signs, ip \in Texts(DecChars, MaxDigits), fr \in Fractions,
        gap \in Pads, suf \in Suffixes }

\* values of more than 8 hex digits, and texts of mixed forms
OtherExprs ==
    { T_wide, T_0X0100ABCD,
      <<"0", "X", "0", "0", "0", "0", "0", "0", "0", "1", "F", "F", "F", "F", "F", "F", "F", "F">>,
      <<"4", "2", "9", "4", "9", "6", "7", "2", "9", "6">>,
      <<"4", "G", "i", "B">>, <<"1", "6", ".", "5", "G", "i", "B">>,
      <<"-", "4", "G", "i", "B">>,
      <<"0", "x", "7", "K", "i", "B">>, <<"0", "x", "-", "7">>, <<"-", "0", "x", "7">>,
      <<"1", ".", "5">>, <<"1", " ", "1">>, <<"1", "K", "i", "B", "M", "i", "B">> }

IntExprs ==
    { IntV(n) : n \in {<<>>, FromNat(4096), Minus(FromNat(4096)),
                       <<1, 0, 0, 0, 0, 0, 0, 0, 0>>} }

\* the expressions given to the parser
Exprs ==
    { StrV(t) : t \in HexExprs \cup DecExprs \cup SizeExprs \cup OtherExprs } \cup IntExprs

\* a caller evaluates parse_address_or_size(expr)
Parse ==
    /\ at = "expr"
    /\ parsed' = parse_address_or_size(expr)
    /\ at' = IF parsed'.ok THEN "parsed" ELSE "rejected"
    /\ UNCHANGED <<expr, formatted, reparsed>>
    /\ UNCHANGED run

\* the caller evaluates format_hex of the parsed integer
Format ==
    /\ at = "parsed"
    /\ formatted' = format_hex(IntV(parsed.n)).s
    /\ at' = "formatted"
    /\ UNCHANGED <<expr, parsed, reparsed>>
    /\ UNCHANGED run

\* the caller parses the formatted text
Reparse ==
    /\ at = "formatted"
    /\ reparsed' = parse_address_or_size(StrV(formatted))
    /\ at' = "reparsed"
    /\ UNCHANGED <<expr, parsed, formatted>>
    /\ UNCHANGED run

\* the caller parses the parsed integer itself
ParseInt ==
    /\ at = "parsed"
    /\ reparsed' = parse_address_or_size(IntV(parsed.n))
    /\ at' = "parsed_int"
    /\ UNCHANGED <<expr, parsed, formatted>>
    /\ UNCHANGED run

ParseInit ==
    /\ expr \in Exprs
    /\ at = "expr"
    /\ parsed = <<>>
    /\ formatted = <<>>
    /\ reparsed = <<>>
    /\ config = <<>>
    /\ directory = <<>>
    /\ pc = "none"
    /\ k = 0
    /\ script_lines = <<>>
    /\ xen_addr = <<>>
    /\ dt_addr = <<>>
    /\ stdout = <<>>
    /\ stderr = <<>>
    /\ exited = <<>>

ParseNext ==
    \/ Parse
    \/ Format
    \/ Reparse
    \/ ParseInt

ParseSpec == ParseInit /\ [][ParseNext]_vars

\* ======================================================================
\* Properties
\* ======================================================================

\* the run ended with the script on standard output
Done == pc = "exit" /\ exited = <<0>>

\* the effective boot order: bootonly filtered to the names present in domains
Selected == SelectSeq(bootonly, HasDomain)

IsFatload(l) == l.op = "fatload"
IsDomainNode(l) == l.op = "fdt mknode" /\ l.mod = <<>> /\ l.i > 0

\* the value of a configured address, the default standing for an absent one
AddrValue(addr, default) == parse_address_or_size(Get(addr, StrV(default)))

\* the value of an address as the script prints it
PrintedValue(txt) == parse_address_or_size(StrV(txt))

\* the artifacts of the domains of a list of names, in load order
RECURSIVE DomainArtifacts(_)
DomainArtifacts(names) ==
    IF names = <<>> THEN <<>>
    ELSE LET d == DomainOf(Head(names))
         IN  << [file |-> d.kernel.file, addr |-> AddrValue(d.kernel.addr, DEFAULT_KERNEL_ADDR)],
                [file |-> d.dt.file, addr |-> AddrValue(d.dt.addr, DEFAULT_DOMDT_ADDR)],
                [file |-> d.ramdisk.file,
                 addr |-> AddrValue(d.ramdisk.addr, DEFAULT_RAMDISK_ADDR)] >>
             \o DomainArtifacts(Tail(names))

\* every artifact the configuration refers to, in load order
Artifacts ==
    << [file |-> config.xen.file, addr |-> AddrValue(config.xen.addr, DEFAULT_XEN_ADDR)],
       [file |-> config.dt.file, addr |-> AddrValue(config.dt.addr, DEFAULT_DT_ADDR)] >>
    \o DomainArtifacts(Selected)

HasFile(a) == a.file # ""

\* C1: the fatload lines of the output are, in order, one line per artifact
\* that has a file name: hypervisor, top-level device tree, then kernel,
\* device tree and ramdisk of each selected domain in boot order; each line
\* carries the media type and number, the artifact's address and its file.
\* Domains that are not selected contribute no line.
FatloadPerNamedArtifact ==
    Done =>
        LET got == SelectSeq(stdout, IsFatload)
            want == SelectSeq(Artifacts, HasFile)
        IN  /\ Len(got) = Len(want)
            /\ \A j \in 1..Len(got) :
                  /\ got[j].val[1] = <<media_type>>
                  /\ got[j].val[2] = media_number
                  /\ PrintedValue(got[j].val[3]) = want[j].addr
                  /\ got[j].val[4] = <<want[j].file>>

\* a run over a selected domain with files, a selected artifact without a
\* file name, and a domain with a kernel file that is not selected
FatloadWitness ==
    /\ Done
    /\ Len(SelectSeq(stdout, IsFatload)) >= 3
    /\ Len(SelectSeq(Artifacts, HasFile)) < Len(Artifacts)
    /\ \E j \in 1..Len(domains_config) :
          /\ \A n \in 1..Len(bootonly) : bootonly[n] # domains_config[j][1]
          /\ domains_config[j][2].kernel.file # ""

T_2048 == <<"2", "0", "4", "8">>

IsBootargsLine(l) == l.op = "fdt set" /\ l.i = 0 /\ l.prop = "xen,xen-bootargs"

\* C2: the output is the phases in strict order: only fatload lines before
\* the one fdt addr line, fdt resize 2048 right after it, every line of a
\* /chosen/domU<i> node after the device-tree-prep lines and before
\* fdt print /chosen, the lines of one domain before those of the next, and
\* fdt print /chosen then booti <hypervisor address> - <device tree address>
\* as the last two lines.
PhasesInStrictOrder ==
    Done =>
        LET n == Len(stdout)
            addrs == {p \in 1..n : stdout[p].op = "fdt addr"}
            a == CHOOSE p \in addrs : TRUE
            prep == 5 + Cardinality({p \in 1..n : IsBootargsLine(stdout[p])})
        IN  /\ Cardinality(addrs) = 1
            /\ \A p \in 1..n : IsFatload(stdout[p]) <=> p < a
            /\ stdout[a + 1].op = "fdt resize" /\ stdout[a + 1].val = <<T_2048>>
            /\ \A p \in 1..n : IsBootargsLine(stdout[p]) => (p > a /\ p < a + prep)
            /\ \A p \in 1..n : stdout[p].i > 0 => (p >= a + prep /\ p < n - 1)
            /\ \A p \in 1..n : \A q \in p..n :
                  (stdout[p].i > 0 /\ stdout[q].i > 0) => stdout[p].i <= stdout[q].i
            /\ n >= a + prep + 1
            /\ stdout[n - 1].op = "fdt print" /\ stdout[n - 1].val = << <<"/chosen">> >>
            /\ stdout[n].op = "booti" /\ Len(stdout[n].val) = 2
            /\ PrintedValue(stdout[n].val[1]) = AddrValue(config.xen.addr, DEFAULT_XEN_ADDR)
            /\ PrintedValue(stdout[n].val[2]) = AddrValue(config.dt.addr, DEFAULT_DT_ADDR)

\* a run that loads files and constructs two domains
PhasesWitness ==
    /\ Done
    /\ \E p \in 1..Len(stdout) : IsFatload(stdout[p])
    /\ \E p \in 1..Len(stdout) : \E q \in 1..Len(stdout) :
          stdout[p].i > 0 /\ stdout[q].i > stdout[p].i
    /\ \E p \in 1..Len(stdout) : IsBootargsLine(stdout[p])

\* C3: the k-th constructed domain is numbered k: the ordinals of the
\* /chosen/domU<i> nodes are 1, 2, ... along the effective boot order,
\* whatever invalid names bootonly contains.
OrdinalsCountFromOne ==
    Done =>
        LET nodes == SelectSeq(stdout, IsDomainNode)
        IN  /\ Len(nodes) = Len(Selected)
            /\ \A j \in 1..Len(nodes) : nodes[j].i = j

\* the lines of the output that fulfil Test
Lines(Test(_)) == SelectSeq(stdout, Test)

\* C4: coloring comes from xen.colors alone: the root bootargs hold
\* llc-coloring=on exactly when xen.colors is present and non-empty and
\* xen-llc-colors=<colors[0]> exactly when colors[0] is also not "none";
\* every constructed domain has one llc-colors property on the domain node,
\* the first entry at index 1 or above that is not "none", and none when
\* there is no such entry.
ColoringFromXenColors ==
    Done =>
        LET cs == xen_colors
            present == config.xen.colors[1] /\ cs # <<>>
            roots == Lines(IsBootargsLine)
            HasTok(tok) == \E j \in 1..Len(roots) : \E m \in 1..Len(roots[j].val) :
                               roots[j].val[m] = tok
            HasColorsTok == \E j \in 1..Len(roots) : \E m \in 1..Len(roots[j].val) :
                               roots[j].val[m][1] = "xen-llc-colors="
            nodes == Lines(IsDomainNode)
            qual == {c \in 2..Len(cs) : cs[c] # "none"}
            first == CHOOSE c \in qual : \A d \in qual : c <= d
        IN  /\ HasTok(<<"llc-coloring=on">>) <=> present
            /\ HasColorsTok <=> (present /\ cs[1] # "none")
            /\ HasColorsTok => HasTok(<<"xen-llc-colors=", cs[1]>>)
            /\ \A j \in 1..Len(nodes) :
                  LET Mine(l) == l.i = nodes[j].i /\ l.prop = "llc-colors"
                      mine == Lines(Mine)
                  IN  IF qual = {} THEN mine = <<>>
                      ELSE /\ Len(mine) = 1
                           /\ mine[1].op = "fdt set" /\ mine[1].mod = <<>>
                           /\ mine[1].val = << <<cs[first]>> >>

\* two domains constructed under colors ["0-1", "none", "4-5"]
ColoringWitness ==
    /\ Done
    /\ xen_colors = <<"0-1", "none", "4-5">>
    /\ Len(Lines(IsDomainNode)) = 2

IsLowerHex(t) == \A c \in 1..Len(t) : \E d \in 1..16 : LowerHex[d] = t[c]

\* 0x and lowercase hex digits without leading zeros, of value n
IsHexOf(t, n) ==
    /\ Len(t) >= 3 /\ t[1] = "0" /\ t[2] = "x"
    /\ LET ds == SubSeq(t, 3, Len(t))
       IN  /\ IsLowerHex(ds)
           /\ Len(ds) > 1 => ds[1] # "0"
           /\ FromDigits(ds, 16, <<>>) = n

\* decimal digits without leading zeros, of value n
IsDecOf(t, n) ==
    /\ t # <<>> /\ AllDec(t)
    /\ Len(t) > 1 => t[1] # "0"
    /\ FromDigits(t, 10, <<>>) = n

\* 0x and lowercase hex digits of value n, zero-padded to 8 digits: exactly 8
\* digits when exact, and otherwise more when n needs more
IsAddrOf(t, n, exact) ==
    /\ Len(t) >= 10 /\ t[1] = "0" /\ t[2] = "x"
    /\ exact => Len(t) = 10
    /\ LET ds == SubSeq(t, 3, Len(t))
       IN  /\ IsLowerHex(ds)
           /\ Len(ds) > 8 => ds[1] # "0"
           /\ FromDigits(ds, 16, <<>>) = n

\* the byte length the directory gives for a file, 0x100000 for none
ResolvedSize(file) ==
    IF file = "" THEN FromNat(1048576)
    ELSE IF directory[file].t = "none" THEN FromNat(1048576)
    ELSE directory[file].n

\* the domain constructed under ordinal i
DomainAt(i) == DomainOf(bootonly[i])

\* the reg line at position p renders address and size as the kind of its
\* module asks
RegLineOk(p, exact) ==
    LET l == stdout[p]
        kind == stdout[p - 1].val[1][1]
        d == DomainAt(l.i)
    IN  /\ stdout[p - 1].prop = "compatible" /\ stdout[p - 1].mod = l.mod
        /\ Len(l.val) = 2
        /\ l.val[1] = SubSeq(l.mod, 1, Len(l.mod))
        /\ CASE kind = "multiboot,kernel" ->
                  /\ IsAddrOf(l.val[1], AddrValue(d.kernel.addr, DEFAULT_KERNEL_ADDR).n, exact)
                  /\ IsHexOf(l.val[2], ResolvedSize(d.kernel.file))
             [] kind = "multiboot,device-tree" ->
                  /\ IsAddrOf(l.val[1], AddrValue(d.dt.addr, DEFAULT_DOMDT_ADDR).n, exact)
                  /\ IsDecOf(l.val[2], ResolvedSize(d.dt.file))
             [] kind = "multiboot,ramdisk" ->
                  /\ IsAddrOf(l.val[1], AddrValue(d.ramdisk.addr, DEFAULT_RAMDISK_ADDR).n, exact)
                  /\ IsHexOf(l.val[2], ResolvedSize(d.ramdisk.file))
             [] OTHER -> FALSE

RegPositions == {p \in 1..Len(stdout) : stdout[p].prop = "reg"}

\* C5 as stated: the device tree module's reg size is decimal, the kernel's
\* and the ramdisk's are unpadded lowercase hex, and the first cell is the
\* module address as 0x plus exactly 8 zero-padded hex digits, the text of
\* the module@ node name.
RegAddrExactlyEightDigits ==
    Done => \A p \in RegPositions : RegLineOk(p, TRUE)

\* C5 amended: as above, the address being 0x plus lowercase hex digits
\* zero-padded to at least 8 digits: 8 for an address below 2^32, as many as
\* the value needs for a wider one.
RegSizeDecimalOrHex ==
    Done => \A p \in RegPositions : RegLineOk(p, FALSE)

\* a device tree module of 384 bytes beside a module at an address of 9 digits
RegWitness ==
    /\ Done
    /\ \E p \in RegPositions : stdout[p].val[2] = <<"3", "8", "4">>
    /\ \E p \in RegPositions : Len(stdout[p].val[1]) > 10

IsMemoryLine(l) == l.op = "fdt set" /\ l.i > 0 /\ l.mod = <<>> /\ l.prop = "memory"

\* C6: the memory property of every constructed domain is <0x0 0x<k>>, k
\* the configured size (default 64MiB) in bytes divided by 1024 and rounded
\* down, as unpadded lowercase hex; 64MiB gives <0x0 0x10000>.
MemoryInKiB ==
    Done =>
        LET mem == Lines(IsMemoryLine)
            nodes == Lines(IsDomainNode)
        IN  /\ Len(mem) = Len(nodes)
            /\ \A j \in 1..Len(mem) :
                  LET bytes == ToNat(AddrValue(DomainAt(mem[j].i).params.memory, T_64MiB).n)
                      cell == mem[j].val[2]
                      kib == ToNat(FromDigits(SubSeq(cell, 3, Len(cell)), 16, <<>>))
                  IN  /\ mem[j].i = nodes[j].i
                      /\ Len(mem[j].val) = 2
                      /\ mem[j].val[1] = <<"0", "x", "0">>
                      /\ IsHexOf(cell, FromNat(kib))
                      /\ kib * 1024 <= bytes /\ bytes < kib * 1024 + 1024
                      /\ bytes = 67108864 => cell = <<"0", "x", "1", "0", "0", "0", "0">>

\* a domain of 2047 bytes (1 KiB, rounded down) beside one of the default 64MiB
MemoryWitness ==
    /\ Done
    /\ \E p \in 1..Len(stdout) :
          IsMemoryLine(stdout[p]) /\ stdout[p].val[2] = <<"0", "x", "1">>
    /\ \E p \in 1..Len(stdout) :
          /\ IsMemoryLine(stdout[p])
          /\ DomainAt(stdout[p].i).params.memory.t = "none"
          /\ stdout[p].val[2] = <<"0", "x", "1", "0", "0", "0", "0">>

Configured(addr, default) == Get(addr, StrV(default))

IsHexString(v) == v.t = "str" /\ Txt0x(v.s)

\* C8 as stated: in the booti line a 0x/0X-prefixed string of xen.addr or
\* dt.addr appears unchanged, and any other value as 0x plus 8 zero-padded
\* lowercase hex digits.
BootiKeepsHexStrings ==
    Done =>
        LET b == stdout[Len(stdout)]
            x == Configured(config.xen.addr, DEFAULT_XEN_ADDR)
            d == Configured(config.dt.addr, DEFAULT_DT_ADDR)
        IN  /\ b.op = "booti"
            /\ IF IsHexString(x) THEN b.val[1] = x.s
               ELSE IsAddrOf(b.val[1], parse_address_or_size(x).n, TRUE)
            /\ IF IsHexString(d) THEN b.val[2] = d.s
               ELSE IsAddrOf(b.val[2], parse_address_or_size(d).n, TRUE)

\* C8 amended: the booti line renders both addresses as the parsed value in
\* 0x plus lowercase hex digits zero-padded to at least 8 digits, whatever
\* form the configuration gives them in: a hex string appears unchanged only
\* when it has that form already.  They are the texts of the fdt addr line
\* and of the fatload lines of the two artifacts.
BootiCanonicalHex ==
    Done =>
        LET b == stdout[Len(stdout)]
            x == Configured(config.xen.addr, DEFAULT_XEN_ADDR)
            d == Configured(config.dt.addr, DEFAULT_DT_ADDR)
            a == CHOOSE p \in 1..Len(stdout) : stdout[p].op = "fdt addr"
        IN  /\ b.op = "booti" /\ Len(b.val) = 2
            /\ IsAddrOf(b.val[1], parse_address_or_size(x).n, FALSE)
            /\ IsAddrOf(b.val[2], parse_address_or_size(d).n, FALSE)
            /\ stdout[a].val = << b.val[2] >>
            /\ config.xen.file # "" => stdout[1].val[3] = b.val[1]
            /\ (IsHexString(x) /\ b.val[1] = x.s) => IsAddrOf(x.s, parse_address_or_size(x).n, FALSE)

\* xen.addr "0X0100ABCD" and dt.addr "0x100000000" in one configuration
BootiWitness ==
    /\ Done
    /\ config.xen.addr = StrV(T_0X0100ABCD)
    /\ config.dt.addr = StrV(T_wide)
    /\ stdout[Len(stdout)].op = "booti"

\* some address or memory expression the run evaluates is malformed
Malformed ==
    LET arts == Artifacts
        sel == Selected
    IN  \/ \E j \in 1..Len(arts) : ~arts[j].addr.ok
        \/ \E j \in 1..Len(sel) :
              ~AddrValue(DomainOf(sel[j]).params.memory, DEFAULT_MEMORY).ok

\* C9 as stated: an artifact without a file name causes no error whatever
\* its other fields hold: a run fails only on the address of an artifact that
\* has a file name, or on a memory size.
UnnamedArtifactNeverFails ==
    exited = <<1>> =>
        LET arts == Artifacts
            sel == Selected
        IN  \/ \E j \in 1..Len(arts) : HasFile(arts[j]) /\ ~arts[j].addr.ok
            \/ \E j \in 1..Len(sel) :
                  ~AddrValue(DomainOf(sel[j]).params.memory, DEFAULT_MEMORY).ok

\* C9 amended: an artifact without a file name gets no fatload line, and it
\* causes no error as long as its addr is absent or well-formed: the addr is
\* parsed whether or not a file is named, so the run fails exactly when an
\* addr of the hypervisor, the device tree or a selected domain, or a
\* selected domain's memory, is malformed.
UnnamedArtifactSkipped ==
    /\ Done =>
          /\ Len(Lines(IsFatload)) = Len(SelectSeq(Artifacts, HasFile))
          /\ \A p \in 1..Len(stdout) : IsFatload(stdout[p]) => stdout[p].val[4] # <<"">>
    /\ pc = "exit" => (exited = <<1>> <=> Malformed)

\* a run that ends well with no hypervisor file and a selected domain whose
\* device tree has an addr and no file
UnnamedWitness ==
    /\ Done
    /\ config.xen.file = ""
    /\ \E j \in 1..Len(Selected) :
          LET d == DomainOf(Selected[j])
          IN  d.dt.file = "" /\ d.dt.addr.t = "str" /\ d.kernel.file = ""

\* C10: output is all or nothing: nothing reaches standard output before the
\* whole line sequence is built; a run that evaluates a malformed expression
\* ends with an error on the diagnostic stream, exit code 1 and an empty
\* standard output; a run that writes writes the complete sequence.
AllOrNothing ==
    /\ pc # "exit" => stdout = <<>>
    /\ stdout # <<>> =>
          /\ Done /\ stdout = script_lines
          /\ stdout[Len(stdout)].op = "booti"
    /\ exited = <<1>> =>
          /\ stdout = <<>>
          /\ stderr # <<>> /\ stderr[Len(stderr)] = <<"Error generating script">>
    /\ (pc = "exit" /\ Malformed) => exited = <<1>>

\* a run that failed in the construction phase, after lines had been built
AllOrNothingWitness ==
    /\ pc = "exit" /\ exited = <<1>>
    /\ \E p \in 1..Len(script_lines) : script_lines[p].i > 0
    /\ stdout = <<>>

\* 0x100000 in hexadecimal digits
X100000 == <<1, 0, 0, 0, 0, 0>>

\* the artifact names a file that the directory does not hold
IsMissing(a) == a.file # "" /\ directory[a.file].t = "none"

Warning(a) == <<"Warning", a.file>>

\* the warnings of a list of artifacts, in order
RECURSIVE Warnings(_)
Warnings(arts) ==
    IF arts = <<>> THEN <<>>
    ELSE (IF IsMissing(Head(arts)) THEN << Warning(Head(arts)) >> ELSE <<>>)
         \o Warnings(Tail(arts))

\* the file a reg line at position p of the output stands for
RegFile(p) ==
    LET kind == stdout[p - 1].val[1][1]
        d == DomainAt(stdout[p].i)
    IN  CASE kind = "multiboot,kernel" -> d.kernel.file
          [] kind = "multiboot,device-tree" -> d.dt.file
          [] kind = "multiboot,ramdisk" -> d.ramdisk.file
          [] OTHER -> ""

\* C11: get_file_size gives 0x100000 and no warning for an empty file name,
\* whatever the directory; 0x100000 and one warning for a named file the
\* directory does not hold; the byte length and no warning for a file it
\* holds. A missing file never aborts the run: a run without a malformed
\* expression ends with the script, with one warning per missing file of a
\* constructed module on the diagnostic stream, and the size cell of every
\* reg is the byte length of the module's file, 0x100000 for none.
MissingFileDefaultsSize ==
    /\ \A d \in Directories :
          /\ get_file_size(d, "") = [size |-> X100000, warn |-> <<>>]
          /\ \A f \in FileNames :
                get_file_size(d, f) =
                    IF d[f].t = "none"
                    THEN [size |-> X100000, warn |-> << <<"Warning", f>> >>]
                    ELSE [size |-> d[f].n, warn |-> <<>>]
    /\ (pc = "exit" /\ ~Malformed) => Done
    /\ Done =>
          /\ stderr = Warnings(DomainArtifacts(Selected))
          /\ \A p \in RegPositions :
                LET cell == PrintedValue(stdout[p].val[2])
                    file == RegFile(p)
                IN  /\ cell.ok
                    /\ cell.n = IF file = "" \/ directory[file].t = "none"
                                THEN X100000 ELSE directory[file].n

\* a finished run with a kernel without a file name, a ramdisk whose file is
\* missing and a module whose file the directory holds
MissingFileWitness ==
    /\ Done
    /\ \E p \in RegPositions : RegFile(p) = ""
    /\ \E p \in RegPositions : RegFile(p) # "" /\ directory[RegFile(p)].t = "none"
    /\ \E p \in RegPositions : RegFile(p) # "" /\ directory[RegFile(p)].t = "int"
    /\ stderr # <<>>

\* the lowercase of a text of hex digits
Lower(t) == [c \in 1..Len(t) |-> LowerHex[HexVal(t[c]) + 1]]

RECURSIVE DropZeros(_)
DropZeros(t) == IF t # <<>> /\ Head(t) = "0" THEN DropZeros(Tail(t)) ELSE t

\* the native value of a short text of decimal digits
RECURSIVE DecNat(_)
DecNat(t) == IF t = <<>> THEN 0
             ELSE DecNat(SubSeq(t, 1, Len(t) - 1)) * 10 + HexVal(t[Len(t)])

\* n < m, of two numbers that are not negative
Less(n, m) ==
    \/ Len(n) < Len(m)
    \/ /\ Len(n) = Len(m)
       /\ \E c \in 1..Len(n) : n[c] < m[c] /\ \A b \in 1..(c - 1) : n[b] = m[b]

\* n is the hexadecimal value of the text t, which starts with 0x or 0X
IsHexValue(t, n) ==
    ~Neg(n) /\ HexDigits(n) = DropZeros(Lower(SubSeq(t, 3, Len(t))))

\* n is the base-10 value of the text t, a sign and digits
IsDecValue(t, n) ==
    /\ DecDigits(Mag(n)) = DropZeros(Unsigned(t))
    /\ Neg(n) <=> (SignOf(t) = "-" /\ n # <<>>)

\* n is the numeral number times 1024^power, what follows the point cut off:
\* with the numeral sign M * 10^x and q the magnitude of n,
\* q * 10^-x <= M * 1024^power < (q + 1) * 10^-x, or q = M * 1024^power * 10^x
IsTruncatedProduct(number, power, n) ==
    LET body == Unsigned(number)
        ePos == FirstOf(body, {"e", "E"})
        mant == SubSeq(body, 1, ePos - 1)
        expo == SubSeq(body, ePos + 1, Len(body))
        dot  == FirstOf(mant, {"."})
        ip   == SubSeq(mant, 1, dot - 1)
        fp   == SubSeq(mant, dot + 1, Len(mant))
        x    == (IF SignOf(expo) = "-" THEN 0 - DecNat(Unsigned(expo))
                 ELSE DecNat(Unsigned(expo))) - Len(fp)
        product == MulPow(FromNat(DecNat(ip \o fp)), 1024, power)
        q    == Mag(n)
    IN  /\ IF x >= 0 THEN q = MulPow(product, 10, x)
           ELSE /\ ~Less(product, MulPow(q, 10, 0 - x))
                /\ Less(product, MulPow(MulAdd(q, 1, 1), 10, 0 - x))
        /\ Neg(n) <=> (SignOf(number) = "-" /\ q # <<>>)

\* n is the value the forms of an expression give to v
IsValueOf(v, n) ==
    IF v.t = "int" THEN n = v.n
    ELSE LET t == Strip(v.s)
             Cut(suffix) == Strip(SubSeq(t, 1, Len(t) - Len(suffix)))
         IN  IF Txt0x(t) THEN IsHexValue(t, n)
             ELSE IF EndsWith(t, KiB) THEN IsTruncatedProduct(Cut(KiB), 1, n)
             ELSE IF EndsWith(t, MiB) THEN IsTruncatedProduct(Cut(MiB), 2, n)
             ELSE IF EndsWith(t, GiB) THEN IsTruncatedProduct(Cut(GiB), 3, n)
             ELSE IsDecValue(t, n)

\* C12 as stated: for every expression the parser accepts the result is a
\* non-negative integer: the input itself for an integer, the hexadecimal
\* value of the trimmed text after 0x or 0X, the numeral before KiB, MiB or
\* GiB times 1024, 1024^2 or 1024^3 truncated toward zero, and otherwise
\* the base-10 value of the trimmed text.
ParsedValueNonNegative ==
    at = "parsed" => (IsValueOf(expr, parsed.n) /\ ~Neg(parsed.n))

\* C12 amended: as above, the result being an integer of either sign: it is
\* negative for a negative integer and for a decimal or suffixed numeral of
\* non-zero value that a minus sign leads, and non-negative otherwise.
ParsedValueSigned ==
    at = "parsed" =>
        /\ IsValueOf(expr, parsed.n)
        /\ Neg(parsed.n) <=>
              \/ expr.t = "int" /\ Neg(expr.n)
              \/ expr.t = "str" /\ SignOf(Strip(expr.s)) = "-" /\ parsed.n # <<>>

\* the parser has accepted a fractional numeral under a minus sign and a
\* suffix, and cut its product toward zero
ParsedWitness ==
    /\ at = "parsed"
    /\ expr.t = "str"
    /\ EndsWith(Strip(expr.s), KiB)
    /\ \E c \in 1..Len(expr.s) : expr.s[c] = "."
    /\ parsed.n = Minus(FromNat(102))

\* C13 as stated: for every expression the parser accepts, formatting the
\* parsed integer with format_hex and parsing the text again gives the same
\* number, for hex, decimal and suffixed forms alike and for values of more
\* than 8 hex digits, and parsing the parsed integer again returns it.
RoundTripOfEveryValue ==
    /\ at = "reparsed" => reparsed = parsed
    /\ at = "parsed_int" => reparsed = parsed

\* C13 amended: as above for every expression whose value is not negative;
\* a negative value is formatted with its minus sign after 0x, a text the
\* parser rejects, while parsing the negative integer itself returns it.
RoundTripOfNonNegative ==
    /\ (at = "reparsed" /\ ~Neg(parsed.n)) =>
          /\ reparsed = parsed
          /\ Len(formatted) >= 10 /\ Txt0x(formatted)
    /\ (at = "reparsed" /\ Neg(parsed.n)) => ~reparsed.ok
    /\ at = "parsed_int" => reparsed = parsed

\* a size in GiB of more than 8 hex digits, formatted and parsed again
RoundTripWitness ==
    /\ at = "reparsed"
    /\ expr.t = "str" /\ EndsWith(Strip(expr.s), GiB)
    /\ Len(formatted) > 10
    /\ reparsed.ok /\ Len(reparsed.n) > 8

====
